---- MODULE Spec2Model ----
(***************************************************************************)
(* Model of jenkins_log_parser/main.py: the console-log extractors of      *)
(* JenkinsLogParser, the aggregation loop over the last n builds, the      *)
(* report rows built by the __main__ block and the merge of those rows     *)
(* into the persisted workbook by save_to_excel.                           *)
(*                                                                         *)
(* A console text is a sequence of lines.  A line is a record whose kind   *)
(* is its lexical shape, the only thing the regular expressions of the     *)
(* program are sensitive to:                                               *)
(*   "text"      free text, a sequence of tokens (toks)                    *)
(*   "summary"   <stamp> <total> <word> (<n> <label>, ...)                 *)
(*   "failures"  the marker "Failures:"                                    *)
(*   "scenario"  "Scenario: <name>   # <location>"                         *)
(*   "duration"  "<m>m<s>.<f>s (executing steps: ...)"                     *)
(* A token is a string that the patterns treat as a unit: a keyword        *)
(* literal, a run of word characters, a blank, or a delimiter.             *)
(***************************************************************************)
EXTENDS Integers, Sequences, FiniteSets, TLC

VARIABLES
    pc,         \* position of the process: main, loop, returned, exit0, exit1
    n,          \* the target build count passed to the aggregator
    latest,     \* resp.json()["number"] of lastBuild
    i,          \* the loop variable of the aggregation loop
    data,       \* the aggregate: date -> environment -> bucket
    fetchLog,   \* every HTTP request of the run with its response, in order
    rows,       \* the report rows (the DataFrame df) of the run
    files,      \* the report files that exist on disk
    emails,     \* number of calls of send_email_report
    store,      \* the Summary sheet of jenkins_summary.xlsx: <<>> or <<rows>>
    runs,       \* number of process invocations so far
    text,       \* input of a direct call of extract_env
    envOut      \* its result: <<>> before the call, <<label>> after

vars == <<pc, n, latest, i, data, fetchLog, rows, files, emails, store,
          runs, text, envOut>>

(***************************************************************************)
(* Bounds of the model.                                                    *)
(***************************************************************************)
MaxN == 3
MaxRuns == 2
MaxTextLen == 4

(***************************************************************************)
(* Generic helpers.                                                        *)
(***************************************************************************)
Range(s) == {s[k] : k \in DOMAIN s}

RECURSIVE SeqsUpTo(_, _)
SeqsUpTo(S, len) ==
    IF len = 0 THEN {<<>>}
    ELSE LET shorter == SeqsUpTo(S, len - 1)
         IN  shorter \cup {Append(s, x) : s \in {t \in shorter : Len(t) = len - 1}, x \in S}

Min(S) == CHOOSE x \in S : \A y \in S : x <= y
Max(S) == CHOOSE x \in S : \A y \in S : x >= y

RECURSIVE Join(_)
Join(toks) == IF toks = <<>> THEN "" ELSE Head(toks) \o Join(Tail(toks))

(***************************************************************************)
(* Tokens of free text.                                                    *)
(***************************************************************************)
TimerKw == "Started by timer with parameters: {"

WordTokens == {"prod", "PROD", "preprod", "PreProd", "unknown", "qa"}
SpaceTokens == {" ", "\n"}

\* str.lower() and the folding of re.IGNORECASE, token by token.
Lower(t) ==
    CASE t = "PROD" -> "prod"
      [] t = "PreProd" -> "preprod"
      [] t = "ENV=" -> "env="
      [] t = "Environment:" -> "environment:"
      [] t = "Environment=" -> "environment="
      [] t = "Run " -> "run "
      [] t = TimerKw -> "started by timer with parameters: {"
      [] t = "Started" -> "started"
      [] t = "ENV" -> "env"
      [] t = "Environment" -> "environment"
      [] t = "Run" -> "run"
      [] t = "Passed" -> "passed"
      [] t = "FAILED" -> "failed"
      [] OTHER -> t

IsWord(t) == t \in WordTokens          \* [A-Za-z0-9_]+

\* The word characters a token starts with, when it is not a word: a
\* keyword begins with a word that [A-Za-z0-9_]+ consumes.
WordPrefix(t) ==
    CASE t = TimerKw -> "Started"
      [] t = "ENV=" -> "ENV"
      [] t \in {"Environment:", "Environment="} -> "Environment"
      [] t = "Run " -> "Run"
      [] OTHER -> ""
IsSpace(t) == t \in SpaceTokens        \* \s
IsDelim(t) == t \in {",", "}"}         \* the characters [^,}] excludes

\* The end (exclusive) of the longest run of tokens satisfying the class
\* test, starting at position from: a greedy X+ or X*.
RECURSIVE RunEnd(_, _, _)
RunEnd(toks, from, cls) ==
    IF from <= Len(toks) /\ toks[from] \in cls THEN RunEnd(toks, from + 1, cls)
    ELSE from

Slice(toks, a, b) == [k \in 1..(b - a) |-> toks[a + k - 1]]

\* str.strip(): leading and trailing whitespace removed.
RECURSIVE StripLeft(_)
StripLeft(toks) ==
    IF toks # <<>> /\ IsSpace(Head(toks)) THEN StripLeft(Tail(toks)) ELSE toks

RECURSIVE StripRight(_)
StripRight(toks) ==
    IF toks # <<>> /\ IsSpace(toks[Len(toks)])
    THEN StripRight(SubSeq(toks, 1, Len(toks) - 1)) ELSE toks

\* A token without the white space it ends in.
TrimRight(t) == IF t = "Run " THEN "Run" ELSE t

\* str.strip(): white-space tokens at both ends go, and so does the white
\* space that ends the last token.
Strip(toks) ==
    LET inner == StripRight(StripLeft(toks))
    IN  IF inner = <<>> THEN inner
        ELSE [inner EXCEPT ![Len(inner)] = TrimRight(inner[Len(inner)])]

LowerAll(toks) == [k \in DOMAIN toks |-> Lower(toks[k])]

(***************************************************************************)
(* re.search for each of the four patterns of extract_env.  The result is  *)
(* <<>> for no match, <<capture>> for a match, the capture being group 1   *)
(* of the leftmost match.                                                  *)
(***************************************************************************)
NotDelim(toks) == Range(toks) \ {",", "}"}
NotBrace(toks) == Range(toks) \ {"}"}

\* Started by timer with parameters: \{[^}]*ENV=([^,}]+)
\* [^}]* is greedy: of the ENV= tokens before the first closing brace, the
\* last one that is followed by a capturable token is taken.
TimerEnvAt(toks, s) ==
    LET stop == RunEnd(toks, s + 1, NotBrace(toks))
    IN  {j \in (s + 1)..(stop - 1) :
            /\ Lower(toks[j]) = "env="
            /\ j + 1 <= Len(toks)
            /\ ~IsDelim(toks[j + 1])}

SearchTimer(toks) ==
    LET starts == {s \in DOMAIN toks :
                      Lower(toks[s]) = Lower(TimerKw) /\ TimerEnvAt(toks, s) # {}}
    IN  IF starts = {} THEN <<>>
        ELSE LET j == Max(TimerEnvAt(toks, Min(starts)))
             IN  << Slice(toks, j + 1, RunEnd(toks, j + 1, NotDelim(toks))) >>

\* ([A-Za-z0-9_]+) at position w: the word tokens from w on and the word
\* the next token starts with; <<>> when there is no word character at w.
WordAt(toks, w) ==
    LET e == RunEnd(toks, w, WordTokens)
        rest == IF e <= Len(toks) /\ WordPrefix(toks[e]) # ""
                THEN <<WordPrefix(toks[e])>> ELSE <<>>
        capture == Slice(toks, w, e) \o rest
    IN  IF capture = <<>> THEN <<>> ELSE <<capture>>

\* ENV=([A-Za-z0-9_]+)
SearchEnv(toks) ==
    LET at == {j \in DOMAIN toks :
                  Lower(toks[j]) = "env=" /\ WordAt(toks, j + 1) # <<>>}
    IN  IF at = {} THEN <<>> ELSE WordAt(toks, Min(at) + 1)

\* The word captured after a keyword ending at position j: \s*([A-Za-z0-9_]+)
WordAfter(toks, j) == WordAt(toks, RunEnd(toks, j + 1, SpaceTokens))

\* Environment[:=]\s*([A-Za-z0-9_]+)
SearchEnvironment(toks) ==
    LET at == {j \in DOMAIN toks :
                  /\ Lower(toks[j]) \in {"environment:", "environment="}
                  /\ WordAfter(toks, j) # <<>>}
    IN  IF at = {} THEN <<>> ELSE WordAfter(toks, Min(at))

\* Run environment:\s*([A-Za-z0-9_]+)
SearchRunEnvironment(toks) ==
    LET at == {j \in DOMAIN toks :
                  /\ Lower(toks[j]) = "run "
                  /\ j + 1 <= Len(toks)
                  /\ Lower(toks[j + 1]) = "environment:"
                  /\ WordAfter(toks, j + 1) # <<>>}
    IN  IF at = {} THEN <<>> ELSE WordAfter(toks, Min(at) + 1)

\* The list `patterns` of extract_env, by position.
Search(p, toks) ==
    CASE p = 1 -> SearchTimer(toks)
      [] p = 2 -> SearchEnv(toks)
      [] p = 3 -> SearchEnvironment(toks)
      [] OTHER -> SearchRunEnvironment(toks)

\* match.group(1).strip().lower()
Normalise(capture) == Join(LowerAll(Strip(capture)))

\* The for loop of extract_env from pattern p on.
RECURSIVE ExtractEnvFrom(_, _, _)
ExtractEnvFrom(order, p, toks) ==
    IF p > Len(order) THEN "unknown"
    ELSE LET m == Search(order[p], toks)
         IN  IF m # <<>> THEN Normalise(m[1])
             ELSE ExtractEnvFrom(order, p + 1, toks)

\* A plausible slip: the bare ENV= pattern listed before the timer block.
extract_env_swapped(toks) == ExtractEnvFrom(<<2, 1, 3, 4>>, 1, toks)

extract_env(toks) == ExtractEnvFrom(<<1, 2, 3, 4>>, 1, toks)

(***************************************************************************)
(* Lines of a console text.                                                *)
(***************************************************************************)
TextLine(toks) == [kind |-> "text", toks |-> toks]

\* stamp: "iso" for [2024-05-01T10:00:00.000Z], "hms" for 10:00:00, "none"
\* for a count expression that no timestamp precedes.  pairs: the
\* "<n> <label>" items of the first parenthesised group, in order.
SummaryLine(stamp, total, pairs) ==
    [kind |-> "summary", stamp |-> stamp, total |-> total, pairs |-> pairs]

FailuresLine == [kind |-> "failures"]
ScenarioLine(name) == [kind |-> "scenario", name |-> name]
DurationLine == [kind |-> "duration"]

\* The token stream the patterns of extract_env scan: the tokens of the
\* text lines, every line ended by a newline; a line of another kind holds
\* none of the keywords and is the opaque token "~".
RECURSIVE Tokens(_)
Tokens(console) ==
    IF console = <<>> THEN <<>>
    ELSE LET l == Head(console)
         IN  (IF l.kind = "text" THEN l.toks ELSE <<"~">>) \o <<"\n">> \o Tokens(Tail(console))

(***************************************************************************)
(* parse_counts_from_line                                                  *)
(***************************************************************************)
\* The for loop over the (count, label) pairs: a later pair overwrites.
RECURSIVE ApplyPairs(_, _)
ApplyPairs(acc, pairs) ==
    IF pairs = <<>> THEN acc
    ELSE LET count == Head(pairs)[1]
             label == Lower(Head(pairs)[2])
         IN  ApplyPairs(IF label \in {"failed", "passed", "skipped"}
                        THEN [acc EXCEPT ![label] = count] ELSE acc,
                        Tail(pairs))

parse_counts_from_line(line) ==
    ApplyPairs([total |-> line.total, failed |-> 0, passed |-> 0, skipped |-> 0],
               line.pairs)

(***************************************************************************)
(* extract_summary_counts                                                  *)
(***************************************************************************)
\* ^(?:\[(\d{4}-\d{2}-\d{2}.*?)Z\]|\b(\d{2}:\d{2}:\d{2}))\s+(\d+ \w+ \(.*\))
MatchesSummary(l) == l.kind = "summary" /\ l.stamp \in {"iso", "hms"}

\* pattern.findall: the matching lines in document order.
FindAllSummary(console) == SelectSeq(console, MatchesSummary)

EmptyDict == [k \in {} |-> 0]

\* A plausible slip: the step-level counts read from the last match.
extract_summary_counts_last(console) ==
    LET matches == FindAllSummary(console)
    IN  IF Len(matches) >= 2
        THEN [scenarios |-> parse_counts_from_line(matches[1]),
              steps |-> parse_counts_from_line(matches[Len(matches)])]
        ELSE EmptyDict

extract_summary_counts(console) ==
    LET matches == FindAllSummary(console)
    IN  IF Len(matches) >= 2
        THEN [scenarios |-> parse_counts_from_line(matches[1]),
              steps |-> parse_counts_from_line(matches[2])]
        ELSE EmptyDict

(***************************************************************************)
(* extract_failures                                                        *)
(***************************************************************************)
\* Failures:(.*?)(?=\d+m\d+\.\d+s \(executing steps: ) then, in group 1,
\* Scenario: (.*?)\s*#
extract_failures(console) ==
    LET marks == {f \in DOMAIN console : console[f].kind = "failures"}
        ends(f) == {d \in DOMAIN console : d > f /\ console[d].kind = "duration"}
        IsScenario(l) == l.kind = "scenario"
        Name(l) == l.name
    IN  IF marks = {} \/ ends(Min(marks)) = {} THEN <<>>
        ELSE LET f == Min(marks)
                 region == SubSeq(console, f + 1, Min(ends(f)) - 1)
                 found == SelectSeq(region, IsScenario)
             IN  [k \in DOMAIN found |-> found[k].name]


(***************************************************************************)
(* The build server: a response is a status code and a body.  None is      *)
(* <<>> and a returned value v is <<v>>.                                   *)
(***************************************************************************)
None == <<>>
Some(v) == <<v>>

Response(status, body) == [status |-> status, body |-> body]

FailStatuses == {404}
LatestNumbers == {2, 5}
\* Build timestamps in milliseconds: the last millisecond of 1970-01-01 UTC
\* and the first of 1970-01-02 UTC.
Timestamps == {86399999, 86400000}

BuildJson(num, ts) == [number |-> num, timestamp |-> ts]

\* get_build_info / fetch_console_log: the body of a 200, else None.
get_build_info(resp) == IF resp.status = 200 THEN Some(resp.body) ELSE None
fetch_console_log(resp) == IF resp.status = 200 THEN Some(resp.body) ELSE None

\* Python truth value of an optional dict or string: None and the empty
\* value are false.
Truthy(opt) == opt # None /\ opt[1] # <<>>

\* The offset of the host's time zone from UTC, in seconds.
UtcOffset == 0

\* datetime.fromtimestamp(ts // 1000).strftime('%Y-%m-%d'): the local
\* calendar day, as the number of days since 1970-01-01.  ISO dates of equal
\* width sort as these numbers do.
DateStr(ts) == ((ts \div 1000) + UtcOffset) \div 86400

(***************************************************************************)
(* The consoles the build server serves in this model.                     *)
(***************************************************************************)
ConsoleProd ==
    << TextLine(<<TimerKw, "ENV=", "PROD", "}">>),
       FailuresLine,
       ScenarioLine("login"), ScenarioLine("checkout"), ScenarioLine("login"),
       SummaryLine("iso", 3, << <<1, "failed">>, <<2, "passed">> >>),
       SummaryLine("iso", 7, << <<2, "FAILED">>, <<4, "Passed">>, <<1, "skipped">> >>),
       DurationLine >>

ConsolePreprod ==
    << TextLine(<<"ENV=", "PreProd">>),
       SummaryLine("none", 9, << <<9, "passed">> >>),
       SummaryLine("hms", 2, << <<2, "passed">> >>),
       SummaryLine("hms", 4, << <<1, "pending">>, <<3, "passed">>, <<4, "passed">> >>),
       SummaryLine("hms", 6, << <<6, "failed">> >>) >>

ConsoleOneSummary ==
    << TextLine(<<"Environment:", " ", "qa">>),
       FailuresLine,
       ScenarioLine("search"),
       SummaryLine("hms", 1, << <<1, "failed">> >>),
       DurationLine >>

ConsoleNoEnv ==
    << TextLine(<<"Finished: SUCCESS">>),
       SummaryLine("iso", 2, << <<2, "passed">> >>),
       SummaryLine("iso", 5, << <<5, "passed">> >>),
       FailuresLine,
       ScenarioLine("search") >>

Consoles == {ConsoleProd, ConsolePreprod, ConsoleOneSummary, ConsoleNoEnv}

(***************************************************************************)
(* aggregate_last_n_builds_by_date_and_env                                 *)
(***************************************************************************)
ZeroCounts == [total |-> 0, passed |-> 0, failed |-> 0, skipped |-> 0]

\* The value the inner defaultdict constructs for a missing key.
DefaultBucket ==
    [builds |-> <<>>, scenarios |-> ZeroCounts, steps |-> ZeroCounts,
     failed_scenarios |-> <<>>]

CountTypes == {"total", "passed", "failed", "skipped"}

\* counts.get(key, {}).get(typ, 0)
GetCount(counts, key, typ) ==
    IF key \in DOMAIN counts THEN counts[key][typ] ELSE 0

\* A plausible slip: the label used as extracted.
NormaliseEnv_raw(env) == env

\* env = extract_env(console); if env not in ["prod", "preprod"]: ...
NormaliseEnv(env) == IF env \in {"prod", "preprod"} THEN env ELSE "ran_manually"

\* data[date_str][env] of the nested defaultdict, without creating it.
Bucket(d, date, env) ==
    IF date \in DOMAIN d /\ env \in DOMAIN d[date] THEN d[date][env]
    ELSE DefaultBucket

\* A plausible slip: = for +=.
AddCounts_assign(acc, counts, key) ==
    [typ \in CountTypes |-> GetCount(counts, key, typ)]

\* entry[key][typ] += counts.get(key, {}).get(typ, 0), for the four types.
AddCounts(acc, counts, key) ==
    [typ \in CountTypes |-> acc[typ] + GetCount(counts, key, typ)]

\* A plausible slip: the list replaced by the build.
AppendBuild_replace(builds, num) == <<num>>

\* entry["builds"].append(i)
AppendBuild(builds, num) == Append(builds, num)

\* Lines 109-121: the fold of one fetched build into its bucket.
Fold(d, num, date, console) ==
    LET env == NormaliseEnv(extract_env(Tokens(console)))
        counts == extract_summary_counts(console)
        fails == extract_failures(console)
        entry == Bucket(d, date, env)
        updated == [builds |-> AppendBuild(entry.builds, num),
                    scenarios |-> AddCounts(entry.scenarios, counts, "scenarios"),
                    steps |-> AddCounts(entry.steps, counts, "steps"),
                    failed_scenarios |-> entry.failed_scenarios \o fails]
        envs == IF date \in DOMAIN d THEN DOMAIN d[date] ELSE {}
    IN  [x \in DOMAIN d \cup {date} |->
            IF x = date
            THEN [e \in envs \cup {env} |-> IF e = env THEN updated ELSE d[date][e]]
            ELSE d[x]]

\* A plausible slip: data[date_str] read before the console is checked,
\* which makes the defaultdict create the date.
LoopBody_touch(d, num, infoResp, consoleResp) ==
    LET info == get_build_info(infoResp)
    IN  IF ~Truthy(info) THEN d
        ELSE LET date_str == DateStr(info[1].timestamp)
                 console == fetch_console_log(consoleResp)
                 touched == [x \in DOMAIN d \cup {date_str} |->
                                IF x \in DOMAIN d THEN d[x] ELSE EmptyDict]
             IN  IF ~Truthy(console) THEN touched
                 ELSE Fold(d, num, date_str, console[1])

\* Lines 102-121: one iteration of the loop for build number num, given the
\* responses of the server.  The console is requested only when the
\* metadata is there.
LoopBody(d, num, infoResp, consoleResp) ==
    LET info == get_build_info(infoResp)
    IN  IF ~Truthy(info) THEN d
        ELSE LET date_str == DateStr(info[1].timestamp)
                 console == fetch_console_log(consoleResp)
             IN  IF ~Truthy(console) THEN d
                 ELSE Fold(d, num, date_str, console[1])

\* The requests one iteration makes, with their responses.
Requests(num, infoResp, consoleResp) ==
    LET first == [op |-> "info", num |-> num, resp |-> infoResp]
    IN  IF ~Truthy(get_build_info(infoResp)) THEN <<first>>
        ELSE <<first, [op |-> "console", num |-> num, resp |-> consoleResp]>>

\* A plausible slip: the lower end of the range included.
InRange_inclusive(num, last, count) == num >= last - count

\* range(last, last - count, -1): the loop goes on while num > last - count.
InRange(num, last, count) == num > last - count

\* After the range is exhausted the function returns dict(data).
AfterLoop(next, last, count) == IF InRange(next, last, count) THEN "loop" ELSE "returned"

Iterate(infoResp, consoleResp) ==
    /\ pc = "loop"
    /\ InRange(i, latest, n)
    /\ data' = LoopBody(data, i, infoResp, consoleResp)
    /\ fetchLog' = fetchLog \o Requests(i, infoResp, consoleResp)
    /\ i' = i - 1
    /\ pc' = AfterLoop(i - 1, latest, n)
    /\ UNCHANGED <<n, latest, rows, files, emails, store, runs, text, envOut>>

NoBody == <<>>

\* The metadata request of the iteration is answered with a failure.
IterInfoUnavailable ==
    \E st \in FailStatuses : Iterate(Response(st, NoBody), Response(st, NoBody))

\* The metadata is served and the console request is answered with a failure.
IterConsoleUnavailable ==
    \E ts \in Timestamps, st \in FailStatuses :
        Iterate(Response(200, BuildJson(i, ts)), Response(st, NoBody))

\* The metadata is served and the console is served empty.
IterConsoleEmpty ==
    \E ts \in Timestamps :
        Iterate(Response(200, BuildJson(i, ts)), Response(200, <<>>))

\* Both are served.
IterFetched ==
    \E ts \in Timestamps, c \in Consoles :
        Iterate(Response(200, BuildJson(i, ts)), Response(200, c))

\* A plausible slip: the failure of the lastBuild request not returned on.
LatestUnavailable_goes_on ==
    /\ pc = "main"
    /\ \E st \in FailStatuses :
          fetchLog' = Append(fetchLog, [op |-> "lastBuild", num |-> 0,
                                        resp |-> Response(st, NoBody)])
    /\ data' = EmptyDict
    /\ latest' = Max(LatestNumbers)
    /\ i' = Max(LatestNumbers)
    /\ pc' = AfterLoop(Max(LatestNumbers), Max(LatestNumbers), n)
    /\ UNCHANGED <<n, rows, files, emails, store, runs, text, envOut>>

\* Lines 87-91: the lastBuild request fails and {} is returned.
LatestUnavailable ==
    /\ pc = "main"
    /\ \E st \in FailStatuses :
          fetchLog' = Append(fetchLog, [op |-> "lastBuild", num |-> 0,
                                        resp |-> Response(st, NoBody)])
    /\ data' = EmptyDict
    /\ pc' = "returned"
    /\ UNCHANGED <<n, latest, i, rows, files, emails, store, runs, text, envOut>>

\* Lines 87-101: the lastBuild request succeeds and the loop is entered.
LatestAvailable ==
    /\ pc = "main"
    /\ \E num \in LatestNumbers :
          /\ fetchLog' = Append(fetchLog, [op |-> "lastBuild", num |-> 0,
                                           resp |-> Response(200, BuildJson(num, 0))])
          /\ latest' = num
          /\ i' = num
          /\ pc' = AfterLoop(num, num, n)
    /\ data' = EmptyDict
    /\ UNCHANGED <<n, rows, files, emails, store, runs, text, envOut>>


(***************************************************************************)
(* The report rows of the __main__ block.                                  *)
(***************************************************************************)
\* sorted() of a list of integers.
RECURSIVE Insert(_, _)
Insert(x, sorted) ==
    IF sorted = <<>> THEN <<x>>
    ELSE IF x <= Head(sorted) THEN <<x>> \o sorted
    ELSE <<Head(sorted)>> \o Insert(x, Tail(sorted))

RECURSIVE SortInts(_)
SortInts(s) == IF s = <<>> THEN <<>> ELSE Insert(Head(s), SortInts(Tail(s)))

\* The scenario names of the model in lexicographic order; Rank is the
\* position of a name in it.
ScenarioOrder == <<"checkout", "login", "search">>
Rank(name) == CHOOSE k \in DOMAIN ScenarioOrder : ScenarioOrder[k] = name

\* sorted(set(names))
SortedSet(names) ==
    LET ranks == {Rank(x) : x \in Range(names)}
        RECURSIVE Asc(_)
        Asc(R) == IF R = {} THEN <<>>
                  ELSE <<ScenarioOrder[Min(R)]>> \o Asc(R \ {Min(R)})
    IN  Asc(ranks)

\* A cell holding a string that joins integers with ", " (the builds
\* column), named by the integers it joins, and a cell holding a number.
StrCell(ints) == [t |-> "str", ints |-> ints]
IntCell(k) == [t |-> "int", ints |-> <<k>>]

\* A cell holding names joined with "; ", and the empty cell as read back.
NamesCell(names) == [t |-> "str", names |-> names]
NaN == [t |-> "nan", names |-> <<>>]

\* A plausible slip: the build list joined in the order it was collected.
BuildsField_unsorted(builds) == StrCell(builds)

\* ", ".join(map(str, sorted(data["builds"])))
BuildsField(builds) == StrCell(SortInts(builds))

\* (x / total * 100) if total > 0 else 0, as the fraction before rounding.
Percentage(x, total) == IF total > 0 THEN <<x * 100, total>> ELSE <<0, 1>>

\* Lines 217-239: the row of one environment of the latest date.
ReportRow(date, env, bucket) ==
    [date |-> date,
     builds |-> BuildsField(bucket.builds),
     environment |-> env,
     stability |-> Percentage(bucket.scenarios.passed, bucket.scenarios.total),
     failure_percentage |-> Percentage(bucket.scenarios.failed, bucket.scenarios.total),
     scenarios |-> bucket.scenarios,
     steps |-> bucket.steps,
     failed_scenarios |-> NamesCell(SortedSet(bucket.failed_scenarios))]

\* sorted(results.keys(), reverse=True)[0]
LatestDate(results) == Max(DOMAIN results)

\* Lines 213-241: one row per environment of the latest date.  The program
\* emits them in the insertion order of the dict; the model fixes an order.
RECURSIVE RowsFor(_, _, _)
RowsFor(results, date, envs) ==
    IF envs = {} THEN <<>>
    ELSE LET env == CHOOSE e \in envs : TRUE
         IN  <<ReportRow(date, env, results[date][env])>>
             \o RowsFor(results, date, envs \ {env})

BuildRows(results) ==
    RowsFor(results, LatestDate(results), DOMAIN results[LatestDate(results)])

(***************************************************************************)
(* save_to_excel                                                           *)
(***************************************************************************)
\* Whether pandas reads a cell of the builds column as a number: a numeric
\* cell, or a string that is one integer ("12", not "12, 13").
Numeric(cell) == cell.t = "int" \/ Len(cell.ints) = 1

\* pd.read_excel: the sheet goes through the type inference of the parser
\* column by column.  A column all of whose cells parse as numbers becomes
\* an integer column; a column with a cell that does not stays as stored.
\* A date "YYYY-MM-DD" and an environment label never parse as numbers; an
\* empty cell is read as NaN.
read_excel(sheet) ==
    LET allNumeric == \A k \in DOMAIN sheet : Numeric(sheet[k].builds)
    IN  [k \in DOMAIN sheet |->
            [sheet[k] EXCEPT
                !.builds = IF allNumeric THEN IntCell(@.ints[1]) ELSE @,
                !.failed_scenarios = IF @.names = <<>> THEN NaN ELSE @]]

\* The subset of drop_duplicates: two cells are equal when their values
\* are, and the integer 12 is not the string "12".
DedupKey(row) == <<row.date, row.builds, row.environment>>

\* df.drop_duplicates(subset=[...], keep="last")
drop_duplicates(df) ==
    LET kept == {k \in DOMAIN df :
                    \A l \in DOMAIN df : l > k => DedupKey(df[l]) # DedupKey(df[k])}
        RECURSIVE Pick(_)
        Pick(K) == IF K = {} THEN <<>> ELSE <<df[Min(K)]>> \o Pick(K \ {Min(K)})
    IN  Pick(kept)

\* Lines 126-133.  st is the sheet on disk: None when the workbook or the
\* sheet is absent.
save_to_excel(df, st) ==
    IF st # None
    THEN Some(drop_duplicates(read_excel(st[1]) \o df))
    ELSE Some(df)

(***************************************************************************)
(* The __main__ block.                                                     *)
(***************************************************************************)
\* Lines 202-204: no credentials in the environment.
MissingCredentials ==
    /\ pc = "main"
    /\ pc' = "exit1"
    /\ UNCHANGED <<n, latest, i, data, fetchLog, rows, files, emails, store,
                   runs, text, envOut>>

\* Lines 209-211: `if not results`.
NoData ==
    /\ pc = "returned"
    /\ DOMAIN data = {}
    /\ pc' = "exit1"
    /\ UNCHANGED <<n, latest, i, data, fetchLog, rows, files, emails, store,
                   runs, text, envOut>>

\* Lines 213-252: the rows are built, written to the three files and
\* handed to send_email_report.
Report ==
    /\ pc = "returned"
    /\ DOMAIN data # {}
    /\ rows' = BuildRows(data)
    /\ files' = files \cup {"jenkins_summary.csv", "jenkins_summary.html",
                            "jenkins_summary.xlsx"}
    /\ store' = save_to_excel(BuildRows(data), store)
    /\ emails' = emails + 1
    /\ pc' = "exit0"
    /\ UNCHANGED <<n, latest, i, data, fetchLog, runs, text, envOut>>

\* The program is started again: a new process, the files of the last one
\* on disk.
StartRun ==
    /\ pc \in {"exit0", "exit1"}
    /\ runs < MaxRuns
    /\ runs' = runs + 1
    /\ pc' = "main"
    /\ latest' = 0
    /\ i' = 0
    /\ data' = EmptyDict
    /\ fetchLog' = <<>>
    /\ rows' = <<>>
    /\ UNCHANGED <<n, files, emails, store, text, envOut>>

(***************************************************************************)
(* A direct call of extract_env on a text of one line.                     *)
(***************************************************************************)
EnvTokens ==
    {TimerKw, "ENV=", "Environment:", "Run ", " ", ",", "}",
     "prod", "PreProd", "unknown"}

CallExtractEnv ==
    /\ pc = "call"
    /\ envOut = None
    /\ envOut' = Some(extract_env(text))
    /\ UNCHANGED <<pc, n, latest, i, data, fetchLog, rows, files, emails,
                   store, runs, text>>

(***************************************************************************)
(* Specifications.                                                         *)
(***************************************************************************)
Fresh ==
    /\ latest = 0
    /\ i = 0
    /\ data = EmptyDict
    /\ fetchLog = <<>>
    /\ rows = <<>>
    /\ files = {}
    /\ emails = 0
    /\ store = None
    /\ runs = 1

\* One run of the program.
Init ==
    /\ pc = "main"
    /\ n \in 0..MaxN
    /\ Fresh
    /\ text = <<>>
    /\ envOut = None

Next ==
    \/ MissingCredentials
    \/ LatestUnavailable
    \/ LatestAvailable
    \/ IterInfoUnavailable
    \/ IterConsoleUnavailable
    \/ IterConsoleEmpty
    \/ IterFetched
    \/ NoData
    \/ Report

Spec == Init /\ [][Next]_vars

\* The loop is sequential code: no step of it waits for anything.
FairSpec == Spec /\ WF_vars(Next)

\* Up to MaxRuns runs over the same workbook.
RunWindows == {1, 2}

InitRuns ==
    /\ pc = "main"
    /\ n \in RunWindows
    /\ Fresh
    /\ text = <<>>
    /\ envOut = None

NextRuns == Next \/ StartRun

SpecRuns == InitRuns /\ [][NextRuns]_vars

\* extract_env on every text of up to MaxTextLen tokens.
InitEnv ==
    /\ pc = "call"
    /\ n = 0
    /\ Fresh
    /\ text \in SeqsUpTo(EnvTokens, MaxTextLen)
    /\ envOut = None

NextEnv == CallExtractEnv

SpecEnv == InitEnv /\ [][NextEnv]_vars


(***************************************************************************)
(* What the responses recorded in fetchLog say about the run.              *)
(***************************************************************************)
Entries(op) == SelectSeq(fetchLog, LAMBDA e : e.op = op)

\* The build numbers the loop asked the metadata of, in order.
Visited == [k \in DOMAIN Entries("info") |-> Entries("info")[k].num]

LatestServed == fetchLog # <<>> /\ fetchLog[1].resp.status = 200
LatestFailed == fetchLog # <<>> /\ fetchLog[1].resp.status # 200

InfoOf(num) == CHOOSE k \in DOMAIN fetchLog :
                   fetchLog[k].op = "info" /\ fetchLog[k].num = num
ConsoleAt(num) == {k \in DOMAIN fetchLog :
                      fetchLog[k].op = "console" /\ fetchLog[k].num = num}

\* The builds whose metadata and console text were both served with a 200.
Fetched == {fetchLog[k].num : k \in {x \in DOMAIN fetchLog :
                fetchLog[x].op = "console" /\ fetchLog[x].resp.status = 200}}

\* Those of them whose console text is not empty.
Usable == {fetchLog[k].num : k \in {x \in DOMAIN fetchLog :
               /\ fetchLog[x].op = "console"
               /\ fetchLog[x].resp.status = 200
               /\ fetchLog[x].resp.body # <<>>}}

ServedConsole(num) == fetchLog[CHOOSE k \in ConsoleAt(num) : TRUE].resp.body
ServedDate(num) == DateStr(fetchLog[InfoOf(num)].resp.body.timestamp)
ServedLabel(num) == extract_env(Tokens(ServedConsole(num)))

SummaryKeys == {"scenarios", "steps"}

ZeroSummary == [key \in SummaryKeys |-> ZeroCounts]

PlusSummary(x, y) ==
    [key \in SummaryKeys |-> [typ \in CountTypes |-> x[key][typ] + y[key][typ]]]

\* The eight counters of one build's own console, zero where the summary
\* has none.
PerBuild(num) ==
    LET counts == extract_summary_counts(ServedConsole(num))
    IN  [key \in SummaryKeys |-> [typ \in CountTypes |-> GetCount(counts, key, typ)]]

RECURSIVE SumPerBuild(_)
SumPerBuild(B) ==
    IF B = {} THEN ZeroSummary
    ELSE LET b == CHOOSE x \in B : TRUE
         IN  PlusSummary(PerBuild(b), SumPerBuild(B \ {b}))

AllBucketKeys == UNION {{<<d, e>> : e \in DOMAIN data[d]} : d \in DOMAIN data}

CountersOf(bucket) == [key \in SummaryKeys |-> bucket[key]]

RECURSIVE SumBuckets(_)
SumBuckets(K) ==
    IF K = {} THEN ZeroSummary
    ELSE LET k == CHOOSE x \in K : TRUE
         IN  PlusSummary(CountersOf(data[k[1]][k[2]]), SumBuckets(K \ {k}))

\* The places <<date, environment, position>> where a build number stands
\* in a build list.
Places(num) ==
    UNION {{<<k[1], k[2], p>> :
               p \in {q \in DOMAIN data[k[1]][k[2]].builds :
                         data[k[1]][k[2]].builds[q] = num}} : k \in AllBucketKeys}

Listed == UNION {Range(data[k[1]][k[2]].builds) : k \in AllBucketKeys}

(***************************************************************************)
(* C1.  Every environment key of the aggregate is prod, preprod or         *)
(* ran_manually, whatever label the classifier extracted.                  *)
(***************************************************************************)
C1_EnvKeys ==
    \A d \in DOMAIN data : DOMAIN data[d] \subseteq {"prod", "preprod", "ran_manually"}

\* A ran_manually bucket holds a build whose console gave "unknown" and one
\* whose console gave the unexpected label "qa".
C1_Witness ==
    \E d \in DOMAIN data :
        /\ "ran_manually" \in DOMAIN data[d]
        /\ \E a, b \in Range(data[d]["ran_manually"].builds) :
              ServedLabel(a) = "unknown" /\ ServedLabel(b) = "qa"

(***************************************************************************)
(* C2 as stated.  The build lists hold exactly the builds whose metadata   *)
(* and console text were both served, each once, and the counters of all   *)
(* buckets add up to the counters of those builds.                         *)
(***************************************************************************)
CoversExactly(B) ==
    /\ Listed = B
    /\ \A b \in B : Cardinality(Places(b)) = 1
    /\ SumBuckets(AllBucketKeys) = SumPerBuild(B)

\* C2 as stated: the build lists cover exactly the builds served twice.
C2_CoversFetched == CoversExactly(Fetched)

(***************************************************************************)
(* C2 amended.  The same of the builds whose metadata was served and whose *)
(* console text was served and is not empty: a console served empty is     *)
(* skipped like one not served.                                            *)
(***************************************************************************)
\* C2 amended: the build lists cover exactly the builds served twice with
\* a console text that is not empty.
C2_CoversUsable == CoversExactly(Usable)

\* The function has returned; one build of the window was not served, two
\* were folded and brought scenario counts.
C2_Witness ==
    /\ pc = "returned"
    /\ \E k \in DOMAIN fetchLog :
          fetchLog[k].op \in {"info", "console"} /\ fetchLog[k].resp.status # 200
    /\ Cardinality(Usable) >= 2
    /\ SumBuckets(AllBucketKeys)["scenarios"]["total"] > 0

(***************************************************************************)
(* C3.  An iteration whose metadata request, or whose console request      *)
(* after a served metadata, is answered with a failure leaves the          *)
(* aggregate as it was and goes on to the next build number.               *)
(***************************************************************************)
LastRequest(log) == log[Len(log)]

\* This step is an iteration whose last request failed.
SkippingStep ==
    /\ pc = "loop"
    /\ Len(fetchLog') > Len(fetchLog)
    /\ LastRequest(fetchLog').resp.status # 200

\* C3: a skipping iteration changes nothing of the aggregate and moves on.
C3_SkipLeavesAggregate ==
    [][SkippingStep =>
          /\ data' = data
          /\ i' = i - 1
          /\ pc' = IF i - 1 > latest - n THEN "loop" ELSE "returned"]_vars

\* A metadata failure and a console failure were followed by a fold.
C3_Witness ==
    \E a, b, c \in DOMAIN fetchLog :
        /\ a < b /\ b < c
        /\ fetchLog[a].op = "info" /\ fetchLog[a].resp.status # 200
        /\ fetchLog[b].op = "console" /\ fetchLog[b].resp.status # 200
        /\ fetchLog[c].op = "console" /\ fetchLog[c].num \in Listed

C5_NoDataOnLatestFailure ==
    LatestFailed =>
        /\ DOMAIN data = {}
        /\ Len(fetchLog) = 1
        /\ pc \in {"returned", "exit1"}
        /\ rows = <<>>
        /\ files = {}
        /\ store = None
        /\ emails = 0

C5_Witness == LatestFailed /\ pc = "exit1"


(***************************************************************************)
(* C6.  The loop asks for the builds latest, latest - 1, ... in descending *)
(* order, each once and never more than n of them, the console of a build  *)
(* right after its metadata and before the next build; when the function   *)
(* has returned all n were visited; and the loop always comes to its end.  *)
(***************************************************************************)
C6_Sequence ==
    /\ \A k \in DOMAIN Visited : Visited[k] = latest - k + 1
    /\ Len(Visited) <= n
    /\ \A p \in DOMAIN fetchLog :
          /\ fetchLog[p].op = "lastBuild" => p = 1
          /\ fetchLog[p].op = "console" =>
                /\ p > 1
                /\ fetchLog[p - 1].op = "info"
                /\ fetchLog[p - 1].num = fetchLog[p].num
    /\ (LatestServed /\ pc \in {"returned", "exit0", "exit1"}) => Len(Visited) = n

\* C6: the order of the requests always holds and the loop is left at last.
C6_VisitsAllAndEnds == []C6_Sequence /\ <>(pc \notin {"main", "loop"})

\* Three builds were visited although the first had no metadata and the
\* second no console.
C6_Witness ==
    /\ pc = "returned"
    /\ Len(Visited) = 3
    /\ Len(fetchLog) >= 5
    /\ fetchLog[2].resp.status # 200
    /\ fetchLog[4].resp.status # 200

(***************************************************************************)
(* C7 amended.  extract_env returns the capture of the first of the four   *)
(* patterns, in the order timer block, ENV=, Environment, Run environment, *)
(* that matches, stripped and lower-cased, and "unknown" when none does.   *)
(* ("unknown" is also what it returns when that capture is "unknown".)     *)
(***************************************************************************)
Matching(toks) == {p \in 1..4 : Search(p, toks) # None}

FirstCapture(toks) == Normalise(Search(Min(Matching(toks)), toks)[1])

\* C7 amended: the result is the first matching pattern's capture,
\* normalised, or "unknown" without a match.
C7_FirstMatchWins ==
    envOut # None =>
        envOut[1] = (IF Matching(text) = {} THEN "unknown" ELSE FirstCapture(text))

(***************************************************************************)
(* C7 as stated: the same, and "unknown" is returned exactly when none of  *)
(* the four patterns matches.                                              *)
(***************************************************************************)
\* C7 as stated: first match wins, and "unknown" only without a match.
C7_UnknownOnlyWithoutMatch ==
    envOut # None =>
        /\ envOut[1] = (IF Matching(text) = {} THEN "unknown" ELSE FirstCapture(text))
        /\ envOut[1] = "unknown" <=> Matching(text) = {}

\* The timer block and the bare ENV= both match, with different captures,
\* and the timer block's was returned.
C7_Witness ==
    /\ envOut # None
    /\ {1, 2} \subseteq Matching(text)
    /\ Normalise(Search(1, text)[1]) # Normalise(Search(2, text)[1])
    /\ envOut[1] = Normalise(Search(1, text)[1])

(***************************************************************************)
(* C8 as stated.  The report has exactly one row for every date and every  *)
(* environment bucket of the aggregate.                                    *)
(***************************************************************************)
RowsOf(date, env) ==
    {k \in DOMAIN rows : rows[k].date = date /\ rows[k].environment = env}

\* C8 as stated: one row per (date, environment) bucket.
C8_RowPerBucket ==
    pc = "exit0" => \A k \in AllBucketKeys : Cardinality(RowsOf(k[1], k[2])) = 1

(***************************************************************************)
(* C8 amended.  The report has exactly one row for every environment       *)
(* bucket of the latest date of the aggregate and no other row; its builds *)
(* are the bucket's in ascending order and its failed scenarios the        *)
(* bucket's failure names, each once, in ascending order.                  *)
(***************************************************************************)
Ascending(ints) == \A p, q \in DOMAIN ints : p < q => ints[p] <= ints[q]
StrictlyAscendingNames(names) ==
    \A p, q \in DOMAIN names : p < q => Rank(names[p]) < Rank(names[q])

\* C8 amended: one row per environment bucket of the latest date, builds
\* ascending, failure names once each and ascending.
C8_RowPerLatestBucket ==
    pc = "exit0" =>
        LET day == Max(DOMAIN data)
        IN  /\ \A e \in DOMAIN data[day] : Cardinality(RowsOf(day, e)) = 1
            /\ \A k \in DOMAIN rows :
                  /\ rows[k].date = day
                  /\ rows[k].environment \in DOMAIN data[day]
                  /\ LET bucket == data[day][rows[k].environment]
                         listed == rows[k].builds.ints
                         names == rows[k].failed_scenarios.names
                     IN  /\ rows[k].builds.t = "str"
                         /\ Ascending(listed)
                         /\ Len(listed) = Len(bucket.builds)
                         /\ Range(listed) = Range(bucket.builds)
                         /\ StrictlyAscendingNames(names)
                         /\ Range(names) = Range(bucket.failed_scenarios)

\* Two dates; a bucket of the latest has two builds and a failure name
\* that occurs more than once.
C8_Witness ==
    /\ pc = "exit0"
    /\ Cardinality(DOMAIN data) = 2
    /\ \E k \in DOMAIN rows :
          /\ Len(rows[k].builds.ints) = 2
          /\ Len(data[rows[k].date][rows[k].environment].failed_scenarios)
                > Len(rows[k].failed_scenarios.names)

(***************************************************************************)
(* C9.  The persisted sheet holds at most one row per composite key        *)
(* (date, builds, environment), the builds being the text of the cell.     *)
(***************************************************************************)
CompositeKey(row) == <<row.date, row.builds.ints, row.environment>>

\* C9: no two rows of the sheet have the same (date, builds, environment).
C9_OneRowPerKey ==
    store # None =>
        \A k, l \in DOMAIN store[1] :
            k # l => CompositeKey(store[1][k]) # CompositeKey(store[1][l])

(***************************************************************************)
(* C10.  The iteration of a build whose metadata and console are served:   *)
(* the build number and the failure names are appended to the bucket of    *)
(* its date and environment; with fewer than two summary lines the eight   *)
(* counters stay, with two or more the first is added to the scenarios     *)
(* counters and the second to the steps counters; the run goes on.         *)
(***************************************************************************)
PlusCounts(acc, c) == [typ \in CountTypes |-> acc[typ] + c[typ]]

FoldEffect(last, date, console, env, matches) ==
    \E old \in {Bucket(data, date, env)}, new \in {Bucket(data', date, env)} :
        /\ new.builds = Append(old.builds, last.num)
        /\ new.failed_scenarios = old.failed_scenarios \o extract_failures(console)
        /\ Len(matches) < 2 =>
              new.scenarios = old.scenarios /\ new.steps = old.steps
        /\ Len(matches) >= 2 =>
              /\ new.scenarios = PlusCounts(old.scenarios, parse_counts_from_line(matches[1]))
              /\ new.steps = PlusCounts(old.steps, parse_counts_from_line(matches[2]))
        /\ pc' \in {"loop", "returned"}

FoldsServedConsole ==
    \E last \in {LastRequest(fetchLog')} :
        \E env \in {NormaliseEnv(extract_env(Tokens(last.resp.body)))},
           matches \in {FindAllSummary(last.resp.body)} :
            FoldEffect(last,
                       DateStr(fetchLog'[Len(fetchLog') - 1].resp.body.timestamp),
                       last.resp.body, env, matches)

ServedStep ==
    /\ pc = "loop"
    /\ Len(fetchLog') > Len(fetchLog)
    /\ LastRequest(fetchLog').op = "console"
    /\ LastRequest(fetchLog').resp.status = 200

\* C10 as stated: of every console that is served.
C10_ServedConsoleIsFolded == [][ServedStep => FoldsServedConsole]_vars

\* C10 amended: of every console that is served and not empty; a console
\* served empty is skipped like one not served.
C10_NonEmptyConsoleIsFolded ==
    [][(ServedStep /\ LastRequest(fetchLog').resp.body # <<>>) => FoldsServedConsole]_vars

\* A bucket holds a build with one summary line and failure names, and a
\* build with three summary lines was folded too.
C10_Witness ==
    /\ \E b \in Listed :
          /\ Len(FindAllSummary(ServedConsole(b))) = 1
          /\ extract_failures(ServedConsole(b)) # <<>>
          /\ \E k \in AllBucketKeys :
                /\ b \in Range(data[k[1]][k[2]].builds)
                /\ Range(extract_failures(ServedConsole(b)))
                      \subseteq Range(data[k[1]][k[2]].failed_scenarios)
    /\ \E b \in Listed : Len(FindAllSummary(ServedConsole(b))) = 3


====
